---------------------------- MODULE Spec2Model ----------------------------
(***************************************************************************)
(* Model of src/src/decoupling_core.cpp: the two exported functions        *)
(*   compute_decoupled_sum(x, y, kernel_function, symmetric)               *)
(*   compute_multiple_decoupled_sums(x, y_list, kernel_function, symmetric)*)
(*                                                                         *)
(* One behaviour is one call of one exported function.  A step is one      *)
(* kernel invocation (the only externally observable event inside a call), *)
(* a call entry or a return.  Indices i, j, b are 0-based as in the C++;    *)
(* TLA+ sequences are 1-based, so x[i] of the code is x[i + 1] here.       *)
(*                                                                         *)
(* Doubles are modelled as exact fractions [num, den]: kernel values are   *)
(* small integers, so every partial sum is exactly representable and the   *)
(* only rounding of the code is the final total / count, which is the      *)
(* fraction itself.  den = 0 encodes the IEEE results of a division by     *)
(* zero: 0/0 (NaN), 1/0 (+Inf), -1/0 (-Inf).                               *)
(***************************************************************************)
EXTENDS Integers, Sequences, FiniteSets

\* Longest collection drawn for x and for y.
MaxLen == 3

\* Most collections in y_list.
MaxB == 2

--------------------------------------------------------------------------
(* Inputs *)

Asc(len) == [k \in 1..len |-> k]
Desc(len) == [k \in 1..len |-> len + 1 - k]
Tens(len) == [k \in 1..len |-> 10 * k]
Ones(len) == [k \in 1..len |-> 1]

Lengths == 0..MaxLen

\* Collections offered as x.
XCollections == {Asc(len) : len \in Lengths} \cup {Desc(len) : len \in Lengths}

\* Collections offered as y of a single call.
YCollections ==
    {Asc(len) : len \in Lengths} \cup {Tens(len) : len \in Lengths}
        \cup {Ones(len) : len \in Lengths}

\* Collections offered as elements of y_list.
BatchCollections == {Tens(len) : len \in Lengths} \cup {Ones(len) : len \in Lengths}

RECURSIVE SeqsUpTo(_, _)
SeqsUpTo(S, len) ==
    IF len = 0 THEN {<<>>}
    ELSE LET shorter == SeqsUpTo(S, len - 1)
         IN  shorter \cup {Append(s, e) : s \in {t \in shorter : Len(t) = len - 1}, e \in S}

YLists == SeqsUpTo(BatchCollections, MaxB)

\* What a read past the end of y may deliver when it delivers anything.
Garbage == {1, 10 * MaxLen}

Kernels == {"add", "sub", "strict", "guard"}

Exports == {"compute_decoupled_sum", "compute_multiple_decoupled_sums"}

--------------------------------------------------------------------------
(* The R side: what kernel_function(a, b) evaluates to.                    *)
(*   add    function(a, b) a + b                                           *)
(*   sub    function(a, b) a - b                                           *)
(*   strict function(a, b) { if (a == b) stop("tie"); a * b }              *)
(*   guard  function(a, b) if (a != b) a * b       (NULL on a tie)         *)
(* A result is [tag |-> "num", val], [tag |-> "stop", what] (an R error    *)
(* raised inside the kernel) or [tag |-> "null"].                          *)

Num(v) == [tag |-> "num", val |-> v]

KernelValue(k, a, b) ==
    CASE k = "add" -> Num(a + b)
      [] k = "sub" -> Num(a - b)
      [] k = "strict" -> IF a = b THEN [tag |-> "stop", what |-> "tie"] ELSE Num(a * b)
      [] k = "guard" -> IF a = b THEN [tag |-> "null"] ELSE Num(a * b)

--------------------------------------------------------------------------
(* Doubles *)

Abs(v) == IF v < 0 THEN -v ELSE v

Sign(v) == IF v < 0 THEN -1 ELSE IF v > 0 THEN 1 ELSE 0

RECURSIVE GCD(_, _)
GCD(p, q) == IF q = 0 THEN p ELSE GCD(q, p % q)

NaN == [num |-> 0, den |-> 0]

Zero == [num |-> 0, den |-> 1]

IsNumber(d) == d.den > 0

\* total / count of lines 22 and 34: a double divided by an int.
Div(tot, cnt) ==
    IF cnt = 0 THEN [num |-> Sign(tot), den |-> 0]
    ELSE LET g == GCD(Abs(tot), cnt)
         IN  [num |-> tot \div g, den |-> cnt \div g]


--------------------------------------------------------------------------
(* State *)

VARIABLES
    entry,            \* which exported function was called
    x,                \* List x
    y_list,           \* List y_list (compute_multiple_decoupled_sums only)
    kernel_function,  \* Function kernel_function
    symmetric,        \* bool symmetric
    pc,               \* "called", "sum_loop", "batch_loop", "returned", "raised",
                      \* "crashed"
    y,                \* List y of the running compute_decoupled_sum
    i, j,             \* the loop indices, at the next execution of the loop body
    total, count,     \* the accumulators
    b,                \* the batch index
    results,          \* NumericVector results
    ret,              \* <<v>>: the double the last compute_decoupled_sum returned
    err,              \* the exception that left the exported function
    calls,            \* the (i, j) of each kernel invocation of the running call
    args,             \* the arguments of the latest kernel invocation
    beyond            \* <<g>>: what lies past the storage of y, once a read has met it

vars ==
    <<entry, x, y_list, kernel_function, symmetric, pc, y, i, j, total, count,
      b, results, ret, err, calls, args, beyond>>

inputs == <<entry, x, y_list, kernel_function, symmetric>>

\* int n = x.size();
n == Len(x)

\* int B = y_list.size();
B == Len(y_list)

NoError == [kind |-> "none"]

--------------------------------------------------------------------------
(* Index pairs, as the specification names them *)

Indices(len) == 0..(len - 1)

\* {(p, q) : 0 <= p < q < len}
UpperPairs(len) == {pq \in Indices(len) \X Indices(len) : pq[1] < pq[2]}

\* {(p, q) : 0 <= p, q < len, p # q}
OrderedPairs(len) == {pq \in Indices(len) \X Indices(len) : pq[1] # pq[2]}

ModePairs(len, sym) == IF sym THEN UpperPairs(len) ELSE OrderedPairs(len)

\* Lexicographic order of (i, j), and the order with the roles of i and j swapped.
LexLess(p, q) == p[1] < q[1] \/ (p[1] = q[1] /\ p[2] < q[2])

ColLess(p, q) == p[2] < q[2] \/ (p[2] = q[2] /\ p[1] < q[1])

--------------------------------------------------------------------------
(* The loops of compute_decoupled_sum *)

\* Mutant: the symmetric inner loop starts on the diagonal, j = i.
InnerStart_Diagonal(ii, sym) == IF sym THEN ii ELSE 0

\* The first j of the inner loop: j = i + 1 (line 13), j = 0 (line 26).
InnerStart(ii, sym) == IF sym THEN ii + 1 ELSE 0

\* Mutant: the test if (i != j) is missing.
BodyRuns_Always(ii, jj, sym) == TRUE

\* Whether the body runs at (ii, jj): always (line 13), if (i != j) (line 27).
BodyRuns(ii, jj, sym) == sym \/ ii # jj

\* Mutant: the two loops are swapped, j outside and i inside, so the pairs
\* come column by column.  (ii, jj - 1) is the pair just evaluated.
Seek_ColumnMajor(ii, jj, len, sym) ==
    LET later == {p \in ModePairs(len, sym) : ColLess(<<ii, jj - 1>>, p)}
    IN  IF later = {} THEN <<len, 0>>
        ELSE CHOOSE p \in later : \A q \in later : p = q \/ ColLess(p, q)

\* From the loop heads at (ii, jj), the indices at which the body next runs;
\* <<len, 0>> when both loops have ended.
RECURSIVE Seek(_, _, _, _)
Seek(ii, jj, len, sym) ==
    IF ii >= len THEN <<len, 0>>
    ELSE IF jj >= len THEN Seek(ii + 1, InnerStart(ii + 1, sym), len, sym)
    ELSE IF BodyRuns(ii, jj, sym) THEN <<ii, jj>>
    ELSE Seek(ii, jj + 1, len, sym)

\* The arguments of kernel_function(x[i], y[j]), yj being what y[j] read.
KernelArgs(ii, yj) == <<x[ii + 1], yj>>

\* as<double>(...): a single number converts, NULL does not.
AsDouble(r) ==
    IF r.tag = "num" THEN [ok |-> TRUE, val |-> r.val]
    ELSE [ok |-> FALSE, what |-> "Expecting a single value"]

\* Mutant: total = value;
Accumulate_Overwrite(tot, value) == value

\* total += value;
Accumulate(tot, value) == tot + value

\* Mutant: the factor 2 of the comment of lines 20-21, applied to the
\* symmetric return.
Mean_Factor2(tot, cnt, sym) == IF sym THEN Div(2 * tot, cnt) ELSE Div(tot, cnt)

\* return total / count; of line 22 (symmetric) and of line 34.
Mean(tot, cnt, sym) == Div(tot, cnt)

\* NumericVector results(B): B zeros.
NewResults(len) == [k \in 1..len |-> Zero]

\* Mutant: the vector is filled from its far end.
StoreResult_Reversed(res, bb, v) == [res EXCEPT ![Len(res) - bb] = v]

\* results[b] = ...
StoreResult(res, bb, v) == [res EXCEPT ![bb + 1] = v]

--------------------------------------------------------------------------
(* Steps *)

Init ==
    /\ entry \in Exports
    /\ x \in XCollections
    /\ kernel_function \in Kernels
    /\ symmetric \in BOOLEAN
    /\ IF entry = "compute_decoupled_sum"
       THEN y \in YCollections /\ y_list = <<>>
       ELSE y = <<>> /\ y_list \in YLists
    /\ pc = "called"
    /\ i = 0 /\ j = 0 /\ total = 0 /\ count = 0 /\ b = 0
    /\ results = <<>> /\ ret = <<>> /\ err = NoError
    /\ calls = <<>> /\ args = <<>> /\ beyond = <<>>

\* Lines 6-8 and the loop initialisations of lines 12-13 or 25-27.
EnterSum ==
    /\ total' = 0
    /\ count' = 0
    /\ i' = Seek(0, InnerStart(0, symmetric), n, symmetric)[1]
    /\ j' = Seek(0, InnerStart(0, symmetric), n, symmetric)[2]
    /\ calls' = <<>>
    /\ args' = <<>>
    /\ beyond' = <<>>
    /\ pc' = "sum_loop"

\* R calls compute_decoupled_sum(x, y, kernel_function, symmetric).
SumCall ==
    /\ pc = "called"
    /\ entry = "compute_decoupled_sum"
    /\ EnterSum
    /\ UNCHANGED <<inputs, y, b, results, ret, err>>

\* An exception leaves compute_decoupled_sum and, in a batch, its caller: neither
\* catches.
Raise(e) ==
    /\ pc' = "raised"
    /\ err' = e
    /\ UNCHANGED <<i, j, total, count>>

\* kernel_function(x[i], y[j]), as<double>, total += value, count++ and the
\* loop increments up to the next execution of the body.
Invoke(yj) ==
    LET r == KernelValue(kernel_function, KernelArgs(i, yj)[1], KernelArgs(i, yj)[2])
        d == AsDouble(r)
    IN  /\ calls' = Append(calls, <<i, j>>)
        /\ args' = KernelArgs(i, yj)
        /\ IF r.tag = "stop"
           THEN Raise([kind |-> "eval_error", what |-> r.what])
           ELSE IF ~d.ok
           THEN Raise([kind |-> "not_compatible", what |-> d.what])
           ELSE /\ total' = Accumulate(total, d.val)
                /\ count' = count + 1
                /\ i' = Seek(i, j + 1, n, symmetric)[1]
                /\ j' = Seek(i, j + 1, n, symmetric)[2]
                /\ UNCHANGED <<pc, err>>

\* One execution of the loop body (lines 15-17, 28-30).  y[j] is unchecked:
\* with j >= y.size() the read is out of bounds and its outcome is the
\* build's: R's index error, a crash, or the kernel is handed whatever lies
\* past the storage of y (the same memory at every such read of one call).
KernelStep ==
    /\ pc = "sum_loop"
    /\ i < n
    /\ IF j < Len(y)
       THEN Invoke(y[j + 1]) /\ UNCHANGED beyond
       ELSE \/ /\ Raise([kind |-> "index_error", what |-> "VECTOR_ELT"])
               /\ UNCHANGED <<calls, args, beyond>>
            \/ /\ pc' = "crashed"
               /\ UNCHANGED <<i, j, total, count, err, calls, args, beyond>>
            \/ \E g \in (IF beyond = <<>> THEN Garbage ELSE {beyond[1]}) :
                  Invoke(g) /\ beyond' = <<g>>
    /\ UNCHANGED <<inputs, y, b, results, ret>>

\* return total / count; (lines 22, 34) and, in a batch, the store of line 45
\* and the b++ of line 43.
SumReturn ==
    /\ pc = "sum_loop"
    /\ i >= n
    /\ ret' = <<Mean(total, count, symmetric)>>
    /\ IF entry = "compute_decoupled_sum"
       THEN pc' = "returned" /\ UNCHANGED <<b, results>>
       ELSE /\ results' = StoreResult(results, b, Mean(total, count, symmetric))
            /\ b' = b + 1
            /\ pc' = "batch_loop"
    /\ UNCHANGED <<inputs, y, i, j, total, count, err, calls, args, beyond>>

\* R calls compute_multiple_decoupled_sums(x, y_list, kernel_function,
\* symmetric): lines 40-41 and b = 0.
BatchCall ==
    /\ pc = "called"
    /\ entry = "compute_multiple_decoupled_sums"
    /\ results' = NewResults(B)
    /\ b' = 0
    /\ pc' = "batch_loop"
    /\ UNCHANGED <<inputs, y, i, j, total, count, ret, err, calls, args, beyond>>

\* b < B: List y = y_list[b]; and the call of line 45.
BatchStep ==
    /\ pc = "batch_loop"
    /\ b < B
    /\ y' = y_list[b + 1]
    /\ EnterSum
    /\ UNCHANGED <<inputs, b, results, ret, err>>

\* b == B: return results;
BatchReturn ==
    /\ pc = "batch_loop"
    /\ b >= B
    /\ pc' = "returned"
    /\ UNCHANGED
         <<inputs, y, i, j, total, count, b, results, ret, err, calls, args, beyond>>

Next ==
    \/ SumCall
    \/ KernelStep
    \/ SumReturn
    \/ BatchCall
    \/ BatchStep
    \/ BatchReturn

Spec == Init /\ [][Next]_vars

--------------------------------------------------------------------------
(* Vocabulary of the properties *)

Single == entry = "compute_decoupled_sum"

Batch == entry = "compute_multiple_decoupled_sums"

\* The latest compute_decoupled_sum call has returned and none has started
\* since: y, calls, count, total and ret are those of that call.
SumDone ==
    \/ Single /\ pc = "returned"
    \/ Batch /\ pc \in {"batch_loop", "returned"} /\ b > 0

PairSet == {calls[k] : k \in 1..Len(calls)}

\* kernel_function(x[p], yy[q]) for an index pair pq within both lists.
KernelAt(yy, pq) == KernelValue(kernel_function, x[pq[1] + 1], yy[pq[2] + 1])

AllNumeric(S, yy) == \A pq \in S : KernelAt(yy, pq).tag = "num"

RECURSIVE SumOver(_, _)
SumOver(S, yy) ==
    IF S = {} THEN 0
    ELSE LET pq == CHOOSE pq \in S : TRUE
         IN  KernelAt(yy, pq).val + SumOver(S \ {pq}, yy)

\* d is exactly sum / cnt.
IsQuotient(d, sum, cnt) == IsNumber(d) /\ d.num * cnt = sum * d.den

\* d is the mean of the kernel over the pairs S of x and yy.
IsMeanOver(d, S, yy) == AllNumeric(S, yy) /\ IsQuotient(d, SumOver(S, yy), Cardinality(S))

\* The latest kernel invocation did not yield a number.
KernelFailed ==
    /\ calls # <<>>
    /\ KernelValue(kernel_function, args[1], args[2]).tag # "num"

Items ==
    UNION {{c[k] : k \in 1..Len(c)} : c \in XCollections \cup YCollections} \cup Garbage

KernelIsSymmetric ==
    \A a, c \in Items :
        KernelValue(kernel_function, a, c) = KernelValue(kernel_function, c, a)

--------------------------------------------------------------------------
(* Properties *)

\* C1: with n < 2 a compute_decoupled_sum call never returns a value (no
\* division with count = 0, no NaN, no zero): it ends with an InsufficientPairs
\* error.
C1_InsufficientPairs ==
    n < 2 =>
        /\ ~SumDone
        /\ (Single /\ pc \in {"returned", "raised", "crashed"}) =>
               (pc = "raised" /\ err.kind = "InsufficientPairs")

\* C2: for x and y of equal length n >= 2 a compute_decoupled_sum call that
\* returns, returns exactly (the sum of kernel(x[i], y[j]) over the pairs of
\* the mode) / (the number of those pairs); x = [1,2,3], y = [10,20,30],
\* kernel a + b gives 84/3 = 28 (symmetric) and 132/6 = 22 (asymmetric).
C2_MeanOverEnumeratedPairs ==
    (SumDone /\ Len(y) = n /\ n >= 2) =>
        /\ IsMeanOver(ret[1], ModePairs(n, symmetric), y)
        /\ (x = <<1, 2, 3>> /\ y = <<10, 20, 30>> /\ kernel_function = "add") =>
               /\ total = (IF symmetric THEN 84 ELSE 132)
               /\ count = (IF symmetric THEN 3 ELSE 6)
               /\ ret[1] = [num |-> IF symmetric THEN 28 ELSE 22, den |-> 1]

C2_Witness ==
    /\ SumDone /\ symmetric
    /\ x = <<1, 2, 3>> /\ y = <<10, 20, 30>> /\ kernel_function = "add"
    /\ ret = <<[num |-> 28, den |-> 1]>>

\* C3: in symmetric mode a compute_decoupled_sum call that returns has invoked
\* the kernel exactly n(n-1)/2 times, on exactly the pairs 0 <= i < j < n, each
\* once, the counter equals that number, and every invocation at (i, j) was
\* given x[i] and y[j].
C3_SymmetricPairs ==
    symmetric =>
        /\ SumDone =>
               /\ Len(calls) = (n * (n - 1)) \div 2
               /\ PairSet = UpperPairs(n)
               /\ count = (n * (n - 1)) \div 2
        /\ (pc # "called" /\ calls # <<>> /\ calls[Len(calls)][2] < Len(y)) =>
               args = <<x[calls[Len(calls)][1] + 1], y[calls[Len(calls)][2] + 1]>>

C3_Witness ==
    /\ symmetric /\ SumDone /\ n = 3 /\ Len(y) = 3
    /\ calls = <<<<0, 1>>, <<0, 2>>, <<1, 2>>>>
    /\ count = 3

\* C4: in asymmetric mode a compute_decoupled_sum call that returns has
\* invoked the kernel exactly n(n-1) times, on exactly the ordered pairs with
\* i # j, each once; no pair with i = j is ever evaluated.
C4_AsymmetricPairs ==
    ~symmetric =>
        /\ SumDone =>
               /\ Len(calls) = n * (n - 1)
               /\ PairSet = OrderedPairs(n)
               /\ count = n * (n - 1)
        /\ \A k \in 1..Len(calls) : calls[k][1] # calls[k][2]

C4_Witness ==
    /\ ~symmetric /\ SumDone /\ n = 3 /\ Len(y) = 3
    /\ Len(calls) = 6 /\ count = 6
    /\ PairSet = {<<0, 1>>, <<0, 2>>, <<1, 0>>, <<1, 2>>, <<2, 0>>, <<2, 1>>}

\* C5: a compute_multiple_decoupled_sums call that returns, returns a vector
\* of length exactly B whose element b is what compute_decoupled_sum(x,
\* y_list[b], kernel, mode) returns: the mean over the pairs of the mode, NaN
\* when there is no pair.  (Elements shorter than x, whose reads are out of
\* bounds, have no defined value to compare with.)
C5_BatchAligned ==
    (Batch /\ pc = "returned") =>
        /\ Len(results) = B
        /\ \A k \in 1..B :
               LET S == ModePairs(n, symmetric)
               IN  IF S = {} THEN results[k] = NaN
                   ELSE Len(y_list[k]) >= n => IsMeanOver(results[k], S, y_list[k])

C5_Witness ==
    /\ Batch /\ pc = "returned" /\ symmetric /\ kernel_function = "add"
    /\ x = <<1, 2, 3>> /\ y_list = <<<<10, 20, 30>>, <<1, 1, 1>>>>
    /\ results = <<[num |-> 28, den |-> 1], [num |-> 7, den |-> 3]>>

\* C6: a kernel invocation that fails at (i, j) ends the call at once with an
\* error that carries the index pair (i, j); no value is returned.  (Stated
\* for x and y of equal length, where every read is in bounds.)
C6_KernelErrorCarriesPair ==
    (Len(y) = n /\ KernelFailed) =>
        /\ pc = "raised"
        /\ ~SumDone
        /\ "pair" \in DOMAIN err
        /\ err.pair = calls[Len(calls)]

\* C7: when the compute_decoupled_sum call of batch element b fails, the
\* batch call fails as a whole with an error that names the batch index b and
\* the underlying error, and no later element is computed; a batch with
\* elements over fewer than 2 items (no pair: InsufficientPairs) cannot return.
\* (Stated for x and y of equal length, where every read is in bounds.)
C7_BatchFailureNamesIndex ==
    Batch =>
        /\ (Len(y) = n /\ KernelFailed) =>
               /\ pc = "raised"
               /\ "batch_index" \in DOMAIN err
               /\ err.batch_index = b
        /\ (pc = "returned" /\ B > 0) => n >= 2

\* C8: the k-th kernel invocation of a call is at the k-th pair of the mode in
\* lexicographic order of (i, j): i never decreases and, for one i, j strictly
\* increases; the sequence of invocations is a function of n and the mode.
C8_LexicographicOrder ==
    /\ \A k \in 1..Len(calls) :
           /\ calls[k] \in ModePairs(n, symmetric)
           /\ Cardinality({pq \in ModePairs(n, symmetric) : LexLess(pq, calls[k])}) = k - 1
    /\ \A k \in 1..(Len(calls) - 1) :
           /\ calls[k][1] <= calls[k + 1][1]
           /\ calls[k][1] = calls[k + 1][1] => calls[k][2] < calls[k + 1][2]

C8_Witness ==
    /\ ~symmetric /\ n = 3
    /\ calls = <<<<0, 1>>, <<0, 2>>, <<1, 0>>, <<1, 2>>, <<2, 0>>, <<2, 1>>>>

\* C9: a compute_decoupled_sum call with len(x) # len(y) fails with
\* InvalidInput: it invokes no kernel, reads no y[j] with j >= len(y), and
\* returns no value computed while ignoring the surplus of y.  (Stated for
\* n >= 2, where the call has pairs to evaluate.)
C9_LengthMismatchRejected ==
    (pc # "called" /\ Len(y) # n /\ n >= 2) =>
        /\ calls = <<>>
        /\ ~SumDone
        /\ pc # "crashed"
        /\ pc = "raised" => err.kind = "InvalidInput"

Exchangeable(yy) ==
    \A pq \in UpperPairs(n) : KernelAt(yy, pq) = KernelAt(yy, <<pq[2], pq[1]>>)

==========================================================================
